---- MODULE Spec2Model ----
(***************************************************************************)
(* Model of the Tic Tac Toe multiplayer server (src/server.js): the        *)
(* in-memory game store, the role slots of each game, the Socket.IO        *)
(* handlers joinGame / makeMove / disconnect, the REST handler that        *)
(* creates a game, and the hand-off of finished games to the history       *)
(* list and to MySQL.                                                      *)
(*                                                                         *)
(* Node runs every handler to completion before the next event, so each    *)
(* handler is one action.                                                  *)
(***************************************************************************)
EXTENDS Integers, Sequences, FiniteSets, TLC

\* ---------------------------------------------------------------- bounds
\* Sockets that may ever connect; socket ids are 1..MaxSockets.
MaxSockets == 3
\* Games that POST /api/new-game may create.
MaxGames == 2
\* The wall clock (new Date()) takes the values 1..MaxClock while a match is
\* played, and 1..LobbyClock in the lobby specification.
MaxClock == 2
LobbyClock == 1
\* In the lobby specification the clients send makeMove for the cells
\* 0..MaxLobbyCell only.
MaxLobbyCell == 1

\* ------------------------------------------------------------- constants
\* JavaScript null in a board cell and in winner.
Null == "null"
\* A vacant role slot (players.X / players.O === null).
NoSocket == 0
\* An unset timestamp (endedAt: null).
NoTime == 0
\* gameHistory keeps at most this many summaries.
HistoryCap == 100

Sockets == 1..MaxSockets
GameIds == 1..MaxGames
Cells == 0..8
Symbols == {"X", "O"}

\* makeMove's index, in half units, so that non-integers are inputs too: the
\* payload index is h / 2. Every cell, and -1, 1.5 and 9.
HalfIndexes == {-2, 3, 18} \cup {2 * i : i \in Cells}
\* The indexes sent in the lobby specification: the first cells, and -1.
LobbyIndexes == {-2} \cup {2 * i : i \in 0..MaxLobbyCell}

VARIABLES
    games,          \* games: gameId -> game object
    nextGameId,     \* nextGameId
    gameHistory,    \* gameHistory: list of summaries of finished games
    gamePlayers,    \* gamePlayers: gameId -> [X |-> socket, O |-> socket]
    socketToGame,   \* socketToGame: socket -> [gameId, symbol]
    sockets,        \* life cycle of each socket: "idle", "connected", "closed"
    rooms,          \* Socket.IO rooms: gameId -> sockets in room game:<id>
    now,            \* the wall clock
    dbPending,      \* INSERTs dispatched by saveGameToDB, not yet settled
    dbRows,         \* rows of the MySQL table games
    dbErrors,       \* number of INSERTs that failed (logged and swallowed)
    emitted,        \* the messages the last handler emitted, in order
    handled         \* the last event handled: [op, socket]

vars == <<games, nextGameId, gameHistory, gamePlayers, socketToGame, sockets,
          rooms, now, dbPending, dbRows, dbErrors, emitted, handled>>

\* ------------------------------------------------------------ board engine
\* Mutant: the last diagonal is entered as 2-4-7.
winningCombosWrongDiagonal ==
    << <<0, 1, 2>>, <<3, 4, 5>>, <<6, 7, 8>>,
       <<0, 3, 6>>, <<1, 4, 7>>, <<2, 5, 8>>,
       <<0, 4, 8>>, <<2, 4, 7>> >>

\* Mutant: the middle column is missing.
winningCombosNoMiddleColumn ==
    << <<0, 1, 2>>, <<3, 4, 5>>, <<6, 7, 8>>,
       <<0, 3, 6>>, <<2, 5, 8>>,
       <<0, 4, 8>>, <<2, 4, 6>> >>

winningCombos ==
    << <<0, 1, 2>>, <<3, 4, 5>>, <<6, 7, 8>>,
       <<0, 3, 6>>, <<1, 4, 7>>, <<2, 5, 8>>,
       <<0, 4, 8>>, <<2, 4, 6>> >>

checkWin(board, player) ==
    \E k \in DOMAIN winningCombos :
        /\ board[winningCombos[k][1]] = player
        /\ board[winningCombos[k][2]] = player
        /\ board[winningCombos[k][3]] = player

\* Mutant: the test of the cells is inverted (cell === null).
checkDrawInverted(board) == \A i \in Cells : board[i] = Null

checkDraw(board) == \A i \in Cells : board[i] # Null

EmptyBoard == [i \in Cells |-> Null]

\* ------------------------------------------------------------- game store
createNewGame(id, t) ==
    [ id            |-> id,
      board         |-> EmptyBoard,
      currentPlayer |-> "X",
      active        |-> TRUE,
      winner        |-> Null,
      createdAt     |-> t,
      updatedAt     |-> t,
      endedAt       |-> NoTime ]

\* f with key k set to v, k added to the domain when absent (obj[k] = v).
Put(f, k, v) == [x \in DOMAIN f \cup {k} |-> IF x = k THEN v ELSE f[x]]

\* f without key k (delete obj[k]).
Delete(f, k) == [x \in DOMAIN f \ {k} |-> f[x]]

\* --------------------------------------------------------------- history
totalMoves(game) == Cardinality({i \in Cells : game.board[i] # Null})

finalBoard(game) ==
    [i \in 1..9 |-> IF game.board[i - 1] = Null THEN "-" ELSE game.board[i - 1]]

\* The row saveGameToDB hands to db.execute.
DbRow(game) ==
    [ game_uuid   |-> game.id,
      winner      |-> game.winner,
      created_at  |-> game.createdAt,
      ended_at    |-> game.endedAt,
      total_moves |-> totalMoves(game),
      final_board |-> finalBoard(game) ]

Summary(game) ==
    [ id        |-> game.id,
      winner    |-> game.winner,
      createdAt |-> game.createdAt,
      endedAt   |-> game.endedAt ]

\* Mutant: the summary is not pushed.
HistoryAfterNoPush(history, game) == history

\* gameHistory after addGameToHistory(game): push, then shift when over the cap.
HistoryAfter(history, game) ==
    LET pushed == Append(history, Summary(game))
    IN  IF Len(pushed) > HistoryCap THEN Tail(pushed) ELSE pushed

\* -------------------------------------------------------------- messages
Msg(ev, to, text, gameId, symbol, game, players) ==
    [ ev |-> ev, to |-> to, text |-> text, gameId |-> gameId,
      symbol |-> symbol, game |-> game, players |-> players ]

ErrorMessage(c, text) == Msg("errorMessage", {c}, text, 0, Null, <<>>, <<>>)

JoinedGame(c, g, symbol, game) ==
    Msg("joinedGame", {c}, "", g, symbol, <<game>>, <<>>)

PlayerInfo(to, g, players) ==
    Msg("playerInfo", to, "", g, Null,
        <<>>, << [X |-> players.X # NoSocket, O |-> players.O # NoSocket] >>)

GameState(to, game) == Msg("gameState", to, "", game.id, Null, <<game>>, <<>>)

\* Mutant: the room of the game has no members.
RoomOfNobody(g) == {}

\* The sockets in room `game:${gameId}`.
RoomOf(g) == IF g \in DOMAIN rooms THEN rooms[g] ELSE {}

\* ------------------------------------------------------------------ init
Init ==
    /\ games = << >>
    /\ nextGameId = 1
    /\ gameHistory = << >>
    /\ gamePlayers = << >>
    /\ socketToGame = << >>
    /\ sockets = [c \in Sockets |-> "idle"]
    /\ rooms = << >>
    /\ now = 1
    /\ dbPending = {}
    /\ dbRows = {}
    /\ dbErrors = 0
    /\ emitted = << >>
    /\ handled = [op |-> "start", socket |-> NoSocket]

\* ------------------------------------------------------------- handlers
\* io.on('connection'): a new socket with a fresh id.
Connect(c) ==
    /\ sockets[c] = "idle"
    /\ sockets' = [sockets EXCEPT ![c] = "connected"]
    /\ emitted' = << >>
    /\ handled' = [op |-> "connection", socket |-> c]
    /\ UNCHANGED <<games, nextGameId, gameHistory, gamePlayers, socketToGame,
                   rooms, now, dbPending, dbRows, dbErrors>>

\* POST /api/new-game, while fewer than maxGames games exist; the clock
\* reads at most maxClock.
NewGame(maxGames, maxClock) ==
    /\ nextGameId <= maxGames
    /\ \E t \in now..maxClock :
        /\ games' = Put(games, nextGameId, createNewGame(nextGameId, t))
        /\ now' = t
    /\ nextGameId' = nextGameId + 1
    /\ emitted' = << >>
    /\ handled' = [op |-> "newGame", socket |-> NoSocket]
    /\ UNCHANGED <<gameHistory, gamePlayers, socketToGame, sockets, rooms,
                   dbPending, dbRows, dbErrors>>

\* The slots of game g: gamePlayers[gameId] || { X: null, O: null }.
PlayersOf(g) ==
    IF g \in DOMAIN gamePlayers THEN gamePlayers[g]
    ELSE [X |-> NoSocket, O |-> NoSocket]

\* Mutant: O is tried before X.
AssignedSymbolOFirst(players) ==
    IF players.O = NoSocket THEN "O"
    ELSE IF players.X = NoSocket THEN "X"
    ELSE Null

\* Mutant: the room-full branch is missing, a late joiner takes O.
AssignedSymbolNeverFull(players) ==
    IF players.X = NoSocket THEN "X" ELSE "O"

\* The role joinGame assigns: X when vacant, else O when vacant, else none.
AssignedSymbol(players) ==
    IF players.X = NoSocket THEN "X"
    ELSE IF players.O = NoSocket THEN "O"
    ELSE Null

\* The gameId 'constructor': games and gamePlayers are object literals, so
\* games['constructor'] and gamePlayers['constructor'] are the inherited
\* function Object, though no game has that id.
ProtoKey == 0

\* games[gameId] is truthy.
HasGame(g) == g \in DOMAIN games \/ g = ProtoKey

\* The joinedGame answer for gameId g: games[g] is the game, or the inherited
\* function, which is not a game object.
JoinedGameOf(c, g, symbol) ==
    IF g \in DOMAIN games
    THEN JoinedGame(c, g, symbol, games[g])
    ELSE Msg("joinedGame", {c}, "", g, symbol, <<>>, <<>>)

\* socket.on('joinGame', { gameId }).
JoinGame(c, g) ==
    /\ sockets[c] = "connected"
    /\ handled' = [op |-> "joinGame", socket |-> c]
    /\ IF ~HasGame(g)
       THEN /\ emitted' = << ErrorMessage(c, "Game not found") >>
            /\ UNCHANGED <<gamePlayers, socketToGame, rooms>>
       ELSE LET players == PlayersOf(g)
                symbol  == AssignedSymbol(players)
            IN  IF symbol = Null
                THEN /\ emitted' = << ErrorMessage(c, "Game room is full (already 2 players).") >>
                     /\ UNCHANGED <<gamePlayers, socketToGame, rooms>>
                ELSE LET joined == [players EXCEPT ![symbol] = c]
                         room   == RoomOf(g) \cup {c}
                     IN  /\ gamePlayers' = Put(gamePlayers, g, joined)
                         /\ socketToGame' =
                                Put(socketToGame, c, [gameId |-> g, symbol |-> symbol])
                         /\ rooms' = Put(rooms, g, room)
                         /\ emitted' = << JoinedGameOf(c, g, symbol),
                                          PlayerInfo(room, g, joined) >>
    /\ UNCHANGED <<games, nextGameId, gameHistory, sockets, now,
                   dbPending, dbRows, dbErrors>>

\* Mutant: the Number.isInteger test is missing.
BadIndexRangeOnly(h) == h < 0 \/ h > 16

\* index < 0 || index > 8 || !Number.isInteger(index), on the index h / 2.
BadIndex(h) == h < 0 \/ h > 16 \/ h % 2 # 0

\* Mutant: the turn is not checked.
NotYourTurnNever(game, symbol) == FALSE

\* game.currentPlayer !== symbol.
NotYourTurn(game, symbol) == game.currentPlayer # symbol

\* Mutant: only a drawn game is closed to moves.
NoActiveGameOnlyWhenDrawn(g) == g \notin DOMAIN games \/ games[g].winner = "draw"

\* Mutant: the active flag is not checked.
NoActiveGameMissingOnly(g) == g \notin DOMAIN games

\* !game || !game.active.
NoActiveGame(g) == g \notin DOMAIN games \/ ~games[g].active

\* Mutant: the turn is not passed on.
OtherSame(player) == player

\* game.currentPlayer = player === 'X' ? 'O' : 'X'.
Other(player) == IF player = "X" THEN "O" ELSE "X"

\* Mutant: the occupied cell is not checked.
OccupiedNever(game, index) == FALSE

\* game.board[index] !== null.
Occupied(game, index) == game.board[index] # Null

\* Mutant: the draw is tested before the win.
AfterMoveDrawFirst(game, player, index, t1, t2) ==
    LET board == [game.board EXCEPT ![index] = player]
        moved == [game EXCEPT !.board = board, !.updatedAt = t1]
    IN  IF checkDraw(board)
        THEN [moved EXCEPT !.active = FALSE, !.winner = "draw", !.endedAt = t2]
        ELSE IF checkWin(board, player)
        THEN [moved EXCEPT !.active = FALSE, !.winner = player, !.endedAt = t2]
        ELSE [moved EXCEPT !.currentPlayer = Other(player)]

\* Mutant: the win branch does not set endedAt.
AfterMoveNoEndedAt(game, player, index, t1, t2) ==
    LET board == [game.board EXCEPT ![index] = player]
        moved == [game EXCEPT !.board = board, !.updatedAt = t1]
    IN  IF checkWin(board, player)
        THEN [moved EXCEPT !.active = FALSE, !.winner = player]
        ELSE IF checkDraw(board)
        THEN [moved EXCEPT !.active = FALSE, !.winner = "draw", !.endedAt = t2]
        ELSE [moved EXCEPT !.currentPlayer = Other(player)]

\* The game object after the accepted move of player at index: the cell is
\* written and updatedAt set at time t1, then the win / draw / next-turn
\* branch runs, reading the clock again (t2) when the game ends.
AfterMove(game, player, index, t1, t2) ==
    LET board == [game.board EXCEPT ![index] = player]
        moved == [game EXCEPT !.board = board, !.updatedAt = t1]
    IN  IF checkWin(board, player)
        THEN [moved EXCEPT !.active = FALSE, !.winner = player, !.endedAt = t2]
        ELSE IF checkDraw(board)
        THEN [moved EXCEPT !.active = FALSE, !.winner = "draw", !.endedAt = t2]
        ELSE [moved EXCEPT !.currentPlayer = Other(player)]

\* The guards of makeMove that let the move of socket c at index h / 2 through.
Accepts(c, h) ==
    /\ c \in DOMAIN socketToGame
    /\ ~NoActiveGame(socketToGame[c].gameId)
    /\ ~NotYourTurn(games[socketToGame[c].gameId], socketToGame[c].symbol)
    /\ ~BadIndex(h)
    /\ ~Occupied(games[socketToGame[c].gameId], h \div 2)

\* socket.on('makeMove', { index }) with index = h / 2; the clock reads at
\* most maxClock.
MakeMove(c, h, maxClock) ==
    /\ sockets[c] = "connected"
    /\ handled' = [op |-> "makeMove", socket |-> c]
    /\ IF c \notin DOMAIN socketToGame
       THEN /\ emitted' = << >>
            /\ UNCHANGED <<games, gameHistory, now, dbPending>>
       ELSE LET g      == socketToGame[c].gameId
                symbol == socketToGame[c].symbol
            IN  IF NoActiveGame(g)
                THEN /\ emitted' = << >>
                     /\ UNCHANGED <<games, gameHistory, now, dbPending>>
                ELSE IF NotYourTurn(games[g], symbol)
                THEN /\ emitted' = << ErrorMessage(c, "Not your turn") >>
                     /\ UNCHANGED <<games, gameHistory, now, dbPending>>
                ELSE IF BadIndex(h)
                THEN /\ emitted' = << >>
                     /\ UNCHANGED <<games, gameHistory, now, dbPending>>
                ELSE IF Occupied(games[g], h \div 2)
                THEN /\ emitted' = << >>
                     /\ UNCHANGED <<games, gameHistory, now, dbPending>>
                ELSE \E t1 \in now..maxClock : \E t2 \in t1..maxClock :
                        LET game == AfterMove(games[g], symbol, h \div 2, t1, t2)
                        IN  /\ games' = [games EXCEPT ![g] = game]
                            /\ IF game.active
                               THEN /\ t2 = t1
                                    /\ UNCHANGED <<gameHistory, dbPending>>
                               ELSE /\ gameHistory' = HistoryAfter(gameHistory, game)
                                    /\ dbPending' = dbPending \cup {DbRow(game)}
                            /\ now' = t2
                            /\ emitted' = << GameState(RoomOf(g), game) >>
    /\ UNCHANGED <<nextGameId, gamePlayers, socketToGame, sockets, rooms,
                   dbRows, dbErrors>>

\* Mutant: the disconnect clears both slots of the game.
VacatedBoth(players, symbol, c) ==
    IF players[symbol] = c THEN [X |-> NoSocket, O |-> NoSocket] ELSE players

\* The slots after the disconnect of socket c bound to symbol: the slot is
\* vacated when players[symbol] === socket.id.
Vacated(players, symbol, c) ==
    IF players[symbol] = c THEN [players EXCEPT ![symbol] = NoSocket] ELSE players

\* Socket.IO takes a closing socket out of all its rooms before 'disconnect'.
LeaveAll(c) == [g \in DOMAIN rooms |-> rooms[g] \ {c}]

\* socket.on('disconnect').
Disconnect(c) ==
    /\ sockets[c] = "connected"
    /\ sockets' = [sockets EXCEPT ![c] = "closed"]
    /\ rooms' = LeaveAll(c)
    /\ handled' = [op |-> "disconnect", socket |-> c]
    /\ IF c \notin DOMAIN socketToGame
       THEN /\ emitted' = << >>
            /\ UNCHANGED <<gamePlayers, socketToGame>>
       ELSE LET g      == socketToGame[c].gameId
                symbol == socketToGame[c].symbol
            IN  /\ socketToGame' = Delete(socketToGame, c)
                /\ IF g \in DOMAIN gamePlayers /\ gamePlayers[g][symbol] = c
                   THEN /\ gamePlayers' =
                              [gamePlayers EXCEPT ![g] = Vacated(@, symbol, c)]
                        /\ emitted' = << PlayerInfo(LeaveAll(c)[g], g, gamePlayers'[g]) >>
                   ELSE /\ emitted' = << >>
                        /\ UNCHANGED gamePlayers
    /\ UNCHANGED <<games, nextGameId, gameHistory, now, dbPending, dbRows, dbErrors>>

\* db.execute resolves: the row is in the table.
DbWriteOk(row) ==
    /\ row \in dbPending
    /\ dbPending' = dbPending \ {row}
    /\ dbRows' = dbRows \cup {row}
    /\ emitted' = << >>
    /\ handled' = [op |-> "dbOk", socket |-> NoSocket]
    /\ UNCHANGED <<games, nextGameId, gameHistory, gamePlayers, socketToGame,
                   sockets, rooms, now, dbErrors>>

\* Mutant: a rejected write reopens the game.
DbWriteFailRollsBack(row) ==
    /\ row \in dbPending
    /\ dbPending' = dbPending \ {row}
    /\ dbErrors' = dbErrors + 1
    /\ games' = [games EXCEPT ![row.game_uuid].active = TRUE,
                              ![row.game_uuid].winner = Null]
    /\ emitted' = << >>
    /\ handled' = [op |-> "dbFail", socket |-> NoSocket]
    /\ UNCHANGED <<nextGameId, gameHistory, gamePlayers, socketToGame,
                   sockets, rooms, now, dbRows>>

\* db.execute rejects: saveGameToDB logs the error and swallows it.
DbWriteFail(row) ==
    /\ row \in dbPending
    /\ dbPending' = dbPending \ {row}
    /\ dbErrors' = dbErrors + 1
    /\ emitted' = << >>
    /\ handled' = [op |-> "dbFail", socket |-> NoSocket]
    /\ UNCHANGED <<games, nextGameId, gameHistory, gamePlayers, socketToGame,
                   sockets, rooms, now, dbRows>>

\* -------------------------------------------------------- specifications
\* Lobby: MaxSockets sockets and MaxGames games under every interleaving of
\* connection, joinGame, makeMove and disconnect, with moves on the first
\* cells of each board.
Next ==
    \/ \E c \in Sockets : Connect(c)
    \/ NewGame(MaxGames, LobbyClock)
    \/ \E c \in Sockets, g \in GameIds : JoinGame(c, g)
    \/ \E c \in Sockets, h \in LobbyIndexes : MakeMove(c, h, LobbyClock)
    \/ \E c \in Sockets : Disconnect(c)

Spec == Init /\ [][Next]_vars

\* Play: one game and the two sockets of a match that stay connected, every
\* game played to its end and every finished game written to MySQL.
PlaySockets == {1, 2}

NextPlay ==
    \/ \E c \in PlaySockets : Connect(c)
    \/ NewGame(1, MaxClock)
    \/ \E c \in PlaySockets : JoinGame(c, 1)
    \/ \E c \in PlaySockets, h \in HalfIndexes : MakeMove(c, h, MaxClock)
    \/ \E row \in dbPending : DbWriteOk(row)
    \/ \E row \in dbPending : DbWriteFail(row)

SpecPlay == Init /\ [][NextPlay]_vars

\* The end game: game 1 after makeMove 0, 3, 1, 4 of sockets 1 (X) and 2 (O),
\* reached from Init by connection, POST /api/new-game, joinGame and makeMove
\* at the clock's first instant; from here X wins with cell 2, O wins with
\* cell 5 and 5, 2, 6, 7, 8 is a draw.
MidGame ==
    [createNewGame(1, 1) EXCEPT
        !.board = [i \in Cells |-> IF i \in {0, 1} THEN "X"
                                   ELSE IF i \in {3, 4} THEN "O" ELSE Null]]

InitEnd ==
    /\ games = Put(<< >>, 1, MidGame)
    /\ nextGameId = 2
    /\ gameHistory = << >>
    /\ gamePlayers = Put(<< >>, 1, [X |-> 1, O |-> 2])
    /\ socketToGame = Put(Put(<< >>, 1, [gameId |-> 1, symbol |-> "X"]),
                          2, [gameId |-> 1, symbol |-> "O"])
    /\ sockets = [c \in Sockets |-> IF c \in PlaySockets THEN "connected" ELSE "idle"]
    /\ rooms = Put(<< >>, 1, PlaySockets)
    /\ now = 1
    /\ dbPending = {}
    /\ dbRows = {}
    /\ dbErrors = 0
    /\ emitted = << GameState(PlaySockets, MidGame) >>
    /\ handled = [op |-> "makeMove", socket |-> 2]

\* The indexes socket c sends: every index to game 1, cell 0 to the others.
EndIndexes(c) ==
    IF c \in DOMAIN socketToGame /\ socketToGame[c].gameId = 1
    THEN HalfIndexes ELSE {0}

NextEnd ==
    \/ \E c \in Sockets : Connect(c)
    \/ NewGame(MaxGames, LobbyClock)
    \/ \E c \in Sockets, g \in GameIds : JoinGame(c, g)
    \/ \E c \in Sockets : \E h \in EndIndexes(c) : MakeMove(c, h, LobbyClock)
    \/ \E c \in Sockets : Disconnect(c)
    \/ \E row \in dbPending : DbWriteOk(row)
    \/ \E row \in dbPending : DbWriteFail(row)

SpecEnd == InitEnd /\ [][NextEnd]_vars

\* Join: one game, and joinGame with the id of the game, an id that was
\* never handed out, and 'constructor'.
JoinIds == GameIds \cup {ProtoKey}

NextJoin ==
    \/ \E c \in Sockets : Connect(c)
    \/ NewGame(1, LobbyClock)
    \/ \E c \in Sockets, g \in JoinIds : JoinGame(c, g)
    \/ \E c \in Sockets : MakeMove(c, 0, LobbyClock)
    \/ \E c \in Sockets : Disconnect(c)

SpecJoin == Init /\ [][NextJoin]_vars

\* ------------------------------------------------------------------ claims
\* The 8 triples as the rules of the game state them: 3 rows, 3 columns and
\* the 2 diagonals.
Triples ==
    {{3 * r, 3 * r + 1, 3 * r + 2} : r \in 0..2}
        \cup {{k, k + 3, k + 6} : k \in 0..2}
        \cup {{0, 4, 8}, {2, 4, 6}}

HoldsTriple(board, p) == \E T \in Triples : \A i \in T : board[i] = p

\* The board that carries exactly the marks xs of X and os of O.
BoardOf(xs, os) ==
    [i \in Cells |-> IF i \in xs THEN "X" ELSE IF i \in os THEN "O" ELSE Null]

\* The step is makeMove sent by socket c.
MakeMoveBy(c) == handled' = [op |-> "makeMove", socket |-> c]

\* C1: the accepted move that first completes one of the 8 triples with the
\* mover's mark ends the game in that step (active = false, winner = the
\* mover's mark), and no later move on that game is accepted; the board
\* X:0, O:3, X:1, O:4, X:2 is a finished game won by X.
C1_WinEndsGame ==
    /\ [][\A g \in DOMAIN games : \A p \in Symbols :
            /\ ( /\ games'[g].board # games[g].board
                 /\ ~HoldsTriple(games[g].board, p)
                 /\ HoldsTriple(games'[g].board, p) )
               => (~games'[g].active /\ games'[g].winner = p)
            /\ games[g].winner = p
               => ( /\ games'[g].board = games[g].board
                    /\ ~games'[g].active
                    /\ games'[g].winner = p )]_vars
    /\ [](\A g \in DOMAIN games :
            games[g].board = BoardOf({0, 1, 2}, {3, 4})
                => (games[g].winner = "X" /\ ~games[g].active))

C1_Witness ==
    \E g \in DOMAIN games :
        /\ games[g].board = BoardOf({0, 1, 2}, {3, 4})
        /\ games[g].winner = "X"
        /\ handled.op = "makeMove"
        /\ Len(emitted) = 1 /\ emitted[1].ev = "gameState"

\* C2: an accepted move that fills the last empty cell without a triple of
\* the mover's mark ends the game in that step as a draw.
C2_FullBoardIsDraw ==
    [][\A g \in DOMAIN games : \A p \in Symbols :
        ( /\ \E i \in Cells :
                /\ games[g].board[i] = Null
                /\ games'[g].board = [games[g].board EXCEPT ![i] = p]
          /\ \A i \in Cells : games'[g].board[i] # Null
          /\ ~HoldsTriple(games'[g].board, p) )
        => (games'[g].winner = "draw" /\ ~games'[g].active)]_vars

C2_Witness ==
    \E g \in DOMAIN games :
        /\ games[g].winner = "draw"
        /\ \A i \in Cells : games[g].board[i] # Null
        /\ ~HoldsTriple(games[g].board, "X") /\ ~HoldsTriple(games[g].board, "O")
        /\ handled.op = "makeMove"
        /\ Len(emitted) = 1 /\ emitted[1].ev = "gameState"

\* The script of C3: the cells played, X first, marks alternating.
Script == <<0, 1, 3, 4, 2, 6, 5, 7, 8>>

ScriptMover(k) == IF k % 2 = 1 THEN "X" ELSE "O"

\* The board after the first k moves of the script.
Prefix(k) ==
    BoardOf({Script[j] : j \in {j \in 1..k : j % 2 = 1}},
            {Script[j] : j \in {j \in 1..k : j % 2 = 0}})

\* The socket c bound to role p of game g can have its move at cell i accepted.
ScriptMoveAccepted(g, p, i) ==
    \A c \in DOMAIN socketToGame :
        (sockets[c] = "connected" /\ socketToGame[c] = [gameId |-> g, symbol |-> p])
            => Accepts(c, 2 * i)

\* C3 as stated: the nine moves 0,1,3,4,2,6,5,7,8 are all accepted, none of
\* them completes a triple, and the game ends as a draw.
C3_ScriptIsDraw ==
    \A g \in DOMAIN games : \A k \in 0..9 :
        games[g].board = Prefix(k) =>
            /\ ~HoldsTriple(games[g].board, "X")
            /\ ~HoldsTriple(games[g].board, "O")
            /\ k < 9 => ( /\ games[g].active
                          /\ games[g].currentPlayer = ScriptMover(k + 1)
                          /\ ScriptMoveAccepted(g, ScriptMover(k + 1), Script[k + 1]) )
            /\ k = 9 => (games[g].winner = "draw" /\ ~games[g].active)

\* C3 amended: the first eight moves of the script are accepted, the eighth
\* (O at 7) completes the column 1-4-7 and ends the game with winner O, and
\* the ninth move is not accepted: the full board of the script never occurs.
C3_ScriptIsWinForO ==
    \A g \in DOMAIN games :
        /\ \A k \in 0..7 :
                games[g].board = Prefix(k) =>
                    /\ ~HoldsTriple(games[g].board, "X")
                    /\ ~HoldsTriple(games[g].board, "O")
                    /\ games[g].active
                    /\ games[g].currentPlayer = ScriptMover(k + 1)
                    /\ ScriptMoveAccepted(g, ScriptMover(k + 1), Script[k + 1])
        /\ games[g].board = Prefix(8) =>
                /\ games[g].winner = "O"
                /\ ~games[g].active
                /\ \A c \in Sockets, h \in HalfIndexes : ~Accepts(c, h)
        /\ games[g].board # Prefix(9)

C3_Witness ==
    \E g \in DOMAIN games :
        /\ games[g].board = Prefix(8)
        /\ games[g].winner = "O"
        /\ gamePlayers[g].X # gamePlayers[g].O
        /\ handled.op = "makeMove"
        /\ Len(emitted) = 1 /\ emitted[1].ev = "gameState"

\* The role bound to socket c is not the one to move in its game.
OutOfTurn(c) ==
    /\ c \in DOMAIN socketToGame
    /\ socketToGame[c].gameId \in DOMAIN games
    /\ games[socketToGame[c].gameId].currentPlayer # socketToGame[c].symbol

WrongTurn(c) == << ErrorMessage(c, "Not your turn") >>

\* C4 as stated: in any reachable state, a makeMove of a bound socket whose
\* mark is not currentPlayer leaves the board alone and is answered with
\* 'Not your turn'.
C4_OutOfTurnAlwaysWrongTurn ==
    [][\A c \in Sockets :
        (MakeMoveBy(c) /\ OutOfTurn(c))
            => (games' = games /\ emitted' = WrongTurn(c))]_vars

\* C4 amended: while the game is active, a makeMove of a bound socket whose
\* mark is not currentPlayer leaves the game alone and is answered with
\* 'Not your turn'; once the game has ended it is ignored without an answer.
C4_OutOfTurnWrongTurnWhileActive ==
    [][\A c \in Sockets :
        (MakeMoveBy(c) /\ OutOfTurn(c))
            => /\ games' = games
               /\ emitted' = IF games[socketToGame[c].gameId].active
                             THEN WrongTurn(c) ELSE << >>]_vars

\* O sends the very first move of the game and is answered with 'Not your turn'.
C4_Witness ==
    \E c \in DOMAIN socketToGame :
        /\ handled = [op |-> "makeMove", socket |-> c]
        /\ socketToGame[c].symbol = "O"
        /\ games[socketToGame[c].gameId].board = EmptyBoard
        /\ games[socketToGame[c].gameId].active
        /\ emitted = WrongTurn(c)

\* The role bound to socket c is the one to move in its game.
InTurn(c) ==
    /\ c \in DOMAIN socketToGame
    /\ socketToGame[c].gameId \in DOMAIN games
    /\ games[socketToGame[c].gameId].currentPlayer = socketToGame[c].symbol

\* The index h / 2 is no integer in 0..8, or its cell in the game of socket
\* c is occupied.
IllegalMove(c, h) ==
    \/ h % 2 # 0
    \/ h \div 2 \notin 0..8
    \/ games[socketToGame[c].gameId].board[h \div 2] \in Symbols

\* C5: a makeMove of the socket whose mark is to move, with an index that is
\* no integer in 0..8 or whose cell is occupied, changes nothing (no field of
\* any game, no slot, no history) and emits no message at all.
C5_IllegalMoveIsSilent ==
    [][\A c \in Sockets :
        (MakeMoveBy(c) /\ InTurn(c)) =>
            \A h \in HalfIndexes :
                (IllegalMove(c, h) /\ MakeMove(c, h, MaxClock))
                    => /\ emitted' = << >>
                       /\ UNCHANGED <<games, nextGameId, gameHistory, gamePlayers,
                                      socketToGame, sockets, rooms, now, dbPending,
                                      dbRows, dbErrors>>]_vars

\* The socket to move in an active game with marks on its board sent a
\* makeMove that was ignored without any message.
C5_Witness ==
    \E c \in DOMAIN socketToGame :
        /\ handled = [op |-> "makeMove", socket |-> c]
        /\ InTurn(c)
        /\ games[socketToGame[c].gameId].active
        /\ \E i \in Cells : games[socketToGame[c].gameId].board[i] # Null
        /\ emitted = << >>

\* The sockets bound to role r of game g.
BoundTo(g, r) ==
    {c \in DOMAIN socketToGame : socketToGame[c] = [gameId |-> g, symbol |-> r]}

\* C6: at most one socket is bound to each (game, role), the slot of that
\* role holds exactly that socket, and so at most two sockets hold a role in
\* one game, however joinGame and disconnect interleave.
C6_OneSocketPerRole ==
    \A g \in GameIds :
        /\ \A r \in Symbols :
            /\ Cardinality(BoundTo(g, r)) <= 1
            /\ \A c \in BoundTo(g, r) :
                   g \in DOMAIN gamePlayers /\ gamePlayers[g][r] = c
        /\ Cardinality(BoundTo(g, "X") \cup BoundTo(g, "O")) <= 2

\* Two sockets hold the two roles of a game and a third was told the room is full.
C6_Witness ==
    \E g \in DOMAIN gamePlayers : \E c \in Sockets :
        /\ Cardinality(BoundTo(g, "X") \cup BoundTo(g, "O")) = 2
        /\ c \notin BoundTo(g, "X") \cup BoundTo(g, "O")
        /\ handled = [op |-> "joinGame", socket |-> c]
        /\ emitted = << ErrorMessage(c, "Game room is full (already 2 players).") >>

\* The slots (game, role) that hold socket c.
SlotsOf(c) ==
    {gr \in (DOMAIN gamePlayers) \X Symbols : gamePlayers[gr[1]][gr[2]] = c}

\* C7: a socket occupies at most one (game, role) slot, also after it sent
\* joinGame more than once.
C7_OneSlotPerSocket ==
    \A c \in Sockets : Cardinality(SlotsOf(c)) <= 1

\* C8: every occupied slot refers to a socket that has not disconnected.
C8_SlotsHoldConnectedSockets ==
    \A g \in DOMAIN gamePlayers : \A r \in Symbols :
        gamePlayers[g][r] # NoSocket => sockets[gamePlayers[g][r]] = "connected"

\* The step is the disconnect of socket c.
DisconnectOf(c) == sockets[c] = "connected" /\ sockets'[c] = "closed"

\* The role that is not r.
OtherRole(r) == CHOOSE q \in Symbols : q # r

\* C9: the disconnect of a socket bound to (game, role) vacates that role
\* and removes the binding; it leaves alone every game object, the other
\* role of the game, the slots of all other games and the bindings of all
\* other sockets. The disconnect of an unbound socket changes nothing.
C9_DisconnectFrame ==
    [][\A c \in Sockets :
        DisconnectOf(c) =>
            /\ UNCHANGED <<games, nextGameId, gameHistory>>
            /\ IF c \in DOMAIN socketToGame
               THEN LET g == socketToGame[c].gameId
                        r == socketToGame[c].symbol
                    IN  /\ gamePlayers'[g][r] = NoSocket
                        /\ gamePlayers'[g][OtherRole(r)] = gamePlayers[g][OtherRole(r)]
                        /\ DOMAIN gamePlayers' = DOMAIN gamePlayers
                        /\ \A g2 \in DOMAIN gamePlayers \ {g} :
                               gamePlayers'[g2] = gamePlayers[g2]
                        /\ DOMAIN socketToGame' = DOMAIN socketToGame \ {c}
                        /\ \A c2 \in DOMAIN socketToGame \ {c} :
                               socketToGame'[c2] = socketToGame[c2]
               ELSE /\ UNCHANGED <<gamePlayers, socketToGame, rooms>>
                    /\ emitted' = << >>]_vars

\* A bound socket left a game with marks on its board whose other role is
\* still held by another socket.
C9_Witness ==
    \E c \in Sockets : \E g \in DOMAIN gamePlayers : \E r \in Symbols :
        /\ handled = [op |-> "disconnect", socket |-> c]
        /\ Len(emitted) = 1 /\ emitted[1].ev = "playerInfo" /\ emitted[1].gameId = g
        /\ gamePlayers[g][r] = NoSocket
        /\ gamePlayers[g][OtherRole(r)] \notin {NoSocket, c}
        /\ games[g].board # EmptyBoard

\* C10: every game is either active with winner and endedAt unset, or ended
\* with winner one of X, O, draw and endedAt set.
C10_ActiveXorEnded ==
    \A g \in DOMAIN games :
        \/ ( /\ games[g].active
             /\ games[g].winner = Null
             /\ games[g].endedAt = NoTime )
        \/ ( /\ ~games[g].active
             /\ games[g].winner \in {"X", "O", "draw"}
             /\ games[g].endedAt # NoTime )

C10_Witness ==
    \E g \in DOMAIN games :
        /\ ~games[g].active
        /\ games[g].winner \in Symbols
        /\ games[g].endedAt # NoTime
        /\ games[g].createdAt # games[g].endedAt

\* C11: the board is append-only: a cell that holds a mark keeps that mark
\* in every step, so no cell is written twice.
C11_BoardAppendOnly ==
    [][\A g \in DOMAIN games : \A i \in Cells :
        games[g].board[i] # Null => games'[g].board[i] = games[g].board[i]]_vars

\* All nine cells are written, a socket has disconnected, and a makeMove of
\* the game's other socket got no answer.
C11_Witness ==
    \E g \in DOMAIN games : \E c \in DOMAIN socketToGame :
        /\ \A i \in Cells : games[g].board[i] # Null
        /\ socketToGame[c].gameId = g
        /\ handled = [op |-> "makeMove", socket |-> c]
        /\ emitted = << >>
        /\ \E d \in Sockets : sockets[d] = "closed"

\* C12: an ended game is frozen: no step (makeMove of either role, joinGame,
\* disconnect, POST /api/new-game, a MySQL outcome) changes its board,
\* currentPlayer, winner, updatedAt or endedAt, and active stays false.
C12_EndedGameIsFrozen ==
    [][\A g \in DOMAIN games :
        ~games[g].active => g \in DOMAIN games' /\ games'[g] = games[g]]_vars

\* Game 1 has ended with empty cells left, another game was created since,
\* and the socket whose turn it would be sent makeMove for an empty cell.
C12_Witness ==
    \E c \in DOMAIN socketToGame :
        /\ socketToGame[c].gameId = 1
        /\ ~games[1].active
        /\ games[1].winner \in Symbols
        /\ games[1].currentPlayer = socketToGame[c].symbol
        /\ 2 \in DOMAIN games
        /\ handled = [op |-> "makeMove", socket |-> c]
        /\ \E i \in Cells : games[1].board[i] = Null

\* The games that end in the step.
EndingNow == {g \in DOMAIN games : games[g].active /\ ~games'[g].active}

\* The final board of game as the 9 characters of the MySQL row.
BoardString(game) ==
    [k \in 1..9 |-> IF game.board[k - 1] \in Symbols THEN game.board[k - 1] ELSE "-"]

\* C13: a game is handed to the history (a summary appended to gameHistory
\* and a row dispatched to MySQL) in the very step in which it ends, with
\* its final winner and board; no other step hands anything over, so an
\* active game is never in the history and an ended game is there once.
C13_HandedOverOnceWhenEnding ==
    /\ [][IF EndingNow = {}
          THEN gameHistory' = gameHistory /\ dbPending' \subseteq dbPending
          ELSE \E g \in EndingNow :
                /\ EndingNow = {g}
                /\ gameHistory' =
                       Append(gameHistory,
                              [ id |-> g, winner |-> games'[g].winner,
                                createdAt |-> games'[g].createdAt,
                                endedAt |-> games'[g].endedAt ])
                /\ \E row \in dbPending' \ dbPending :
                       /\ dbPending' = dbPending \cup {row}
                       /\ row.game_uuid = g
                       /\ row.winner = games'[g].winner
                       /\ row.final_board = BoardString(games'[g])
                       /\ row.total_moves =
                              Cardinality({i \in Cells : games'[g].board[i] # Null})]_vars
    /\ [](\A g \in DOMAIN games :
            Cardinality({k \in DOMAIN gameHistory : gameHistory[k].id = g})
                = IF games[g].active THEN 0 ELSE 1)

C13_Witness ==
    \E g \in DOMAIN games :
        /\ ~games[g].active
        /\ handled.op = "makeMove"
        /\ Len(emitted) = 1 /\ emitted[1].ev = "gameState"
        /\ gameHistory = << [ id |-> g, winner |-> games[g].winner,
                              createdAt |-> games[g].createdAt,
                              endedAt |-> games[g].endedAt ] >>
        /\ \E row \in dbPending : row.game_uuid = g

\* The step is the joinGame handler of socket c.
JoinGameBy(c) == handled' = [op |-> "joinGame", socket |-> c]

\* Both slots of game g are held.
SlotsFull(g) ==
    /\ g \in DOMAIN gamePlayers
    /\ gamePlayers[g].X # NoSocket
    /\ gamePlayers[g].O # NoSocket

\* C14: a joinGame is rejected exactly when no game has the id ('Game not
\* found') or both slots of the game are held ('Game room is full'); the
\* rejection goes to the sender alone, changes no slot, binding, room or
\* game, and sends no playerInfo.
C14_JoinRejectedIffUnknownOrFull ==
    [][\A c \in Sockets :
        JoinGameBy(c) =>
            \A g \in JoinIds :
                JoinGame(c, g) =>
                    /\ g \notin DOMAIN games =>
                            emitted' = << ErrorMessage(c, "Game not found") >>
                    /\ (g \in DOMAIN games /\ SlotsFull(g)) =>
                            emitted' = << ErrorMessage(c,
                                            "Game room is full (already 2 players).") >>
                    /\ (g \in DOMAIN games /\ ~SlotsFull(g)) =>
                            emitted'[1].ev = "joinedGame"
                    /\ emitted'[1].ev = "errorMessage" =>
                            /\ Len(emitted') = 1
                            /\ emitted'[1].to = {c}
                            /\ UNCHANGED <<games, nextGameId, gameHistory, gamePlayers,
                                           socketToGame, sockets, rooms, now,
                                           dbPending, dbRows, dbErrors>>]_vars

\* Game g exists and one of its slots is vacant.
HasVacantSlot(g) ==
    /\ g \in DOMAIN games
    /\ PlayersOf(g).X = NoSocket \/ PlayersOf(g).O = NoSocket

\* C15: a joinGame that finds a vacant slot takes X whenever X is vacant
\* (also after X was vacated by a disconnect while O is held), O only when X
\* is held and O is vacant; the sender is written to that slot alone, bound
\* to exactly that game and role, and joinedGame returns that role.
C15_FirstVacantRoleXPreferred ==
    [][\A c \in Sockets :
        JoinGameBy(c) =>
            \A g \in GameIds :
                (HasVacantSlot(g) /\ JoinGame(c, g)) =>
                    LET r == IF PlayersOf(g).X = NoSocket THEN "X" ELSE "O"
                    IN  /\ gamePlayers'[g] = [PlayersOf(g) EXCEPT ![r] = c]
                        /\ \A k \in DOMAIN gamePlayers \ {g} :
                                gamePlayers'[k] = gamePlayers[k]
                        /\ socketToGame'[c] = [gameId |-> g, symbol |-> r]
                        /\ \A d \in DOMAIN socketToGame \ {c} :
                                socketToGame'[d] = socketToGame[d]
                        /\ emitted'[1].ev = "joinedGame"
                        /\ emitted'[1].to = {c}
                        /\ emitted'[1].gameId = g
                        /\ emitted'[1].symbol = r]_vars

\* A socket joined as X a game whose X had disconnected and whose O is held
\* by another socket.
C15_Witness ==
    \E c \in DOMAIN socketToGame : \E g \in DOMAIN gamePlayers :
        /\ handled = [op |-> "joinGame", socket |-> c]
        /\ socketToGame[c] = [gameId |-> g, symbol |-> "X"]
        /\ gamePlayers[g].X = c
        /\ gamePlayers[g].O \notin {NoSocket, c}
        /\ \E d \in Sockets : sockets[d] = "closed"
        /\ emitted[1].symbol = "X"

\* The sockets bound to game g.
BoundSockets(g) == {d \in DOMAIN socketToGame : socketToGame[d].gameId = g}

\* No gameState among the messages of the step.
NoGameStateSent == \A k \in DOMAIN emitted' : emitted'[k].ev # "gameState"

\* C17: an accepted makeMove emits exactly one gameState, carrying the game
\* after the move (one mark more than before) to a set of sockets that holds
\* every socket bound to the game; a rejected or ignored makeMove, and every
\* other handler, emits no gameState and changes no game, so the snapshots
\* of a game are its accepted moves in order.
C17_OneGameStatePerAcceptedMove ==
    [][/\ \A c \in Sockets :
            MakeMoveBy(c) =>
                IF games' # games
                THEN LET g == socketToGame[c].gameId
                     IN  /\ \A k \in DOMAIN games \ {g} : games'[k] = games[k]
                         /\ totalMoves(games'[g]) = totalMoves(games[g]) + 1
                         /\ Len(emitted') = 1
                         /\ emitted' = << GameState(emitted'[1].to, games'[g]) >>
                         /\ BoundSockets(g) \subseteq emitted'[1].to
                ELSE NoGameStateSent
       /\ handled'.op # "makeMove" =>
            /\ NoGameStateSent
            /\ \A g \in DOMAIN games : games'[g] = games[g]]_vars

\* The second accepted move of a game was sent to both of its sockets.
C17_Witness ==
    /\ handled.op = "makeMove"
    /\ Len(emitted) = 1
    /\ emitted[1].ev = "gameState"
    /\ totalMoves(emitted[1].game[1]) = 2
    /\ Cardinality(emitted[1].to) = 2
    /\ emitted[1].to = BoundSockets(emitted[1].gameId)

\* The error texts of joinGame and makeMove.
ErrorTexts ==
    {"Not your turn", "Game not found", "Game room is full (already 2 players)."}

\* Socket c is bound to a game that has ended.
BoundToEndedGame(c) ==
    /\ c \in DOMAIN socketToGame
    /\ socketToGame[c].gameId \in DOMAIN games
    /\ ~games[socketToGame[c].gameId].active

\* C16: a makeMove of a socket without binding, or of a socket (of either
\* role) whose game has ended, changes nothing and emits nothing; the only
\* error texts ever emitted are WrongTurn, SessionFull and SessionNotFound.
C16_UnboundOrEndedIsSilent ==
    /\ [][\A c \in Sockets :
            (MakeMoveBy(c) /\ (c \notin DOMAIN socketToGame \/ BoundToEndedGame(c)))
                => /\ emitted' = << >>
                   /\ UNCHANGED <<games, nextGameId, gameHistory, gamePlayers,
                                  socketToGame, sockets, rooms, now, dbPending,
                                  dbRows, dbErrors>>]_vars
    /\ [](\A k \in DOMAIN emitted :
            emitted[k].ev = "errorMessage" => emitted[k].text \in ErrorTexts)

\* The socket whose mark is currentPlayer sent makeMove to its ended game and
\* got no answer.
C16_Witness ==
    \E c \in DOMAIN socketToGame :
        /\ handled = [op |-> "makeMove", socket |-> c]
        /\ BoundToEndedGame(c)
        /\ InTurn(c)
        /\ emitted = << >>

\* The rows handed to MySQL that were not rejected.
RowsKept == dbPending \cup dbRows

\* C18: the MySQL outcome does not touch the game: a row is dispatched only
\* for a game that has already ended and carries that game's winner and
\* endedAt; the ending move broadcasts its gameState while the row is still
\* pending; a resolved or rejected write changes nothing but the table and
\* the error log, so active, winner and board are never reverted.
C18_DbOutcomeLeavesGame ==
    /\ [](\A row \in RowsKept :
            /\ row.game_uuid \in DOMAIN games
            /\ ~games[row.game_uuid].active
            /\ games[row.game_uuid].winner = row.winner
            /\ games[row.game_uuid].endedAt = row.ended_at
            /\ row.ended_at # NoTime
            /\ row.final_board = BoardString(games[row.game_uuid]))
    /\ [][/\ \A g \in EndingNow :
                /\ emitted' = << GameState(RoomOf(g), games'[g]) >>
                /\ \E row \in dbPending' \ dbRows' : row.game_uuid = g
          /\ handled'.op \in {"dbOk", "dbFail"} =>
                UNCHANGED <<games, nextGameId, gameHistory, gamePlayers,
                            socketToGame, sockets, rooms, now>>]_vars

\* The write of game 1 was rejected after a move was accepted in game 2
\* while the row was pending; game 1 is still ended.
C18_Witness ==
    /\ handled.op = "dbFail"
    /\ dbErrors = 1
    /\ ~games[1].active /\ games[1].winner \in Symbols \cup {"draw"}
    /\ 2 \in DOMAIN games /\ games[2].board[0] = "X"
    /\ Len(gameHistory) = 1

\* Number of marks p on board.
Count(board, p) == Cardinality({i \in Cells : board[i] = p})

\* C19: the recorded outcome agrees with the board: winner X (O) means X (O)
\* holds a triple and the other mark none; 'draw' means a full board without
\* a triple; an active game has no triple and an empty cell.
C19_OutcomeAgreesWithBoard ==
    \A g \in DOMAIN games :
        LET b == games[g].board
        IN  /\ \A p \in Symbols :
                games[g].winner = p =>
                    HoldsTriple(b, p) /\ ~HoldsTriple(b, OtherRole(p))
            /\ games[g].winner = "draw" =>
                    /\ \A i \in Cells : b[i] # Null
                    /\ ~HoldsTriple(b, "X") /\ ~HoldsTriple(b, "O")
            /\ games[g].active =>
                    /\ ~HoldsTriple(b, "X") /\ ~HoldsTriple(b, "O")
                    /\ \E i \in Cells : b[i] = Null

\* The ninth move completed a triple: the game is won, not drawn.
C19_Witness ==
    \E g \in DOMAIN games :
        /\ Count(games[g].board, "X") = 5 /\ Count(games[g].board, "O") = 4
        /\ HoldsTriple(games[g].board, "X")
        /\ games[g].winner = "X"

\* C20: on every board the X marks are as many as the O marks or one more;
\* while the game is active currentPlayer is X exactly when they are as
\* many, O exactly when X has one more; no board carries more than 9 marks.
C20_MarksAlternate ==
    \A g \in DOMAIN games :
        LET x == Count(games[g].board, "X")
            o == Count(games[g].board, "O")
        IN  /\ x - o \in {0, 1}
            /\ x + o <= 9
            /\ games[g].active =>
                    /\ (games[g].currentPlayer = "X") <=> (x = o)
                    /\ (games[g].currentPlayer = "O") <=> (x = o + 1)

\* O has answered X twice and X is to move.
C20_Witness ==
    \E g \in DOMAIN games :
        /\ games[g].active
        /\ Count(games[g].board, "X") = 2 /\ Count(games[g].board, "O") = 2
        /\ games[g].currentPlayer = "X"

====
